---- MODULE Spec2Model ----
(***************************************************************************)
(* The two notebooks of the repository as sequential runs against the      *)
(* remote platform.                                                        *)
(*                                                                         *)
(*   recommender notebook (src/unnamed/part_000): name a job, submit it,   *)
(*     poll it, report, aggregate; once for the Default job and once for   *)
(*     the Advanced job; then fetch telemetry.                             *)
(*     Before that: upload the two archives, create the model package     *)
(*     group, register the model package.                                  *)
(*   training notebook (Sklearn_on_SageMaker_end2end.ipynb): upload the    *)
(*     data, start training through the SDK and through boto3, tune,       *)
(*     wait, deploy an endpoint, invoke it three ways, delete it.          *)
(*                                                                         *)
(* A notebook run executes its cells in order; a cell that raises stops    *)
(* the run (pc = Halted).  The remote service is no code of the            *)
(* repository: its job registry and the status life cycle of a job are     *)
(* modelled from the specification's description of it.                    *)
(***************************************************************************)
EXTENDS Integers, Sequences, FiniteSets, TLC

\* ------------------------------------------------------------------ bounds

\* The clock counts half seconds and stops advancing at MaxTime.
MaxTime == 3
\* Longest recommendation list the remote service returns.
MaxRecs == 2
\* The query and sleep counters of a poll saturate here.
MaxCount == 3

\* time.sleep(300) in both poll loops.
PollInterval == 300

Min(a, b) == IF a < b THEN a ELSE b

Sat(n) == Min(n + 1, MaxCount)

\* ------------------------------------------------------------- job names

\* round(time.time()): Python 3 rounds half to even.  t is in half seconds.
RoundSecondsOdd(t) == IF (t \div 2) % 2 = 0 THEN t \div 2 ELSE (t \div 2) + 1

RoundSeconds(t) == IF t % 2 = 0 THEN t \div 2 ELSE RoundSecondsOdd(t)

\* strftime("%Y-%m-%d-%H-%M-%S"): the sub-second part is cut off.
StrftimeSeconds(t) == t \div 2

\* model_name + "-instance-" + str(round(time.time()))
DefaultJobName(t) == <<"resnet50-instance-", RoundSeconds(t)>>

\* model_name + "-" + instance_type.replace(".", "-") + "-load-test-" + str(round(time.time()))
AdvancedJobName(t) == <<"resnet50-ml-c5-xlarge-load-test-", RoundSeconds(t)>>

\* "sklearn-boto3-" + datetime.datetime.now().strftime(...)
TrainingJobName(t) == <<"sklearn-boto3-", StrftimeSeconds(t)>>

JobNameFor(j, t) == IF j = "default" THEN DefaultJobName(t) ELSE AdvancedJobName(t)

NoName == <<"", 0>>

\* ------------------------------------------------- recommendation records

\* A recommendation record as the poll's job record carries it: three
\* sub-records, read by the aggregation cell as x["EndpointConfiguration"],
\* x["ModelConfiguration"] and x["Metrics"].  The service's endpoint
\* configuration always names its variant (VariantName); the other keys vary
\* from record to record, and RecShared has a key in all three sub-records.
Rec(ec, mc, m) == [EndpointConfiguration |-> ec, ModelConfiguration |-> mc, Metrics |-> m]

RecA ==
    Rec([VariantName |-> "v1", InstanceType |-> "ml.c5.xlarge"],
        [EnvironmentParameters |-> "OMP_NUM_THREADS=2"],
        [ModelLatency |-> "60"])

RecB ==
    Rec([VariantName |-> "v2", InstanceType |-> "ml.c5.xlarge"],
        [EnvironmentParameters |-> "OMP_NUM_THREADS=4"],
        [ModelLatency |-> "80", CostPerHour |-> "0.2"])

RecShared ==
    Rec([VariantName |-> "v3", InstanceType |-> "ml.c5.xlarge"],
        [InstanceType |-> "ml.m5.large"],
        [ModelLatency |-> "60", InstanceType |-> "ml.c5d.large"])

RecordSet == {RecA, RecB, RecShared}

\* The lists of up to MaxRecs records, no record twice.
RecLists ==
    UNION {{l \in [1..n -> RecordSet] : \A i, k \in 1..n : l[i] = l[k] => i = k} :
              n \in 0..MaxRecs}

SubRecords(x) == <<x.EndpointConfiguration, x.ModelConfiguration, x.Metrics>>

KeysOf(x) == DOMAIN x.EndpointConfiguration \cup DOMAIN x.ModelConfiguration \cup DOMAIN x.Metrics

\* --------------------------------------------------------- remote service

Statuses == {"PENDING", "IN_PROGRESS", "COMPLETED", "STOPPED", "FAILED"}

\* The statuses in which the service is done with a job.
TerminalStatuses == {"COMPLETED", "STOPPED", "FAILED"}

FailureReasons == {"InternalFailure", "ValidationError"}

\* The record of a job that was just accepted.
NewJob(name) ==
    [JobName |-> name, Status |-> "PENDING", FailureReason |-> "",
     HasRecommendations |-> FALSE, InferenceRecommendations |-> <<>>]

\* The record of a job that was stopped before it produced anything.
StoppedJob(name) == [NewJob(name) EXCEPT !.Status = "STOPPED"]

\* No job record read yet.
NoJob ==
    [JobName |-> NoName, Status |-> "none", FailureReason |-> "",
     HasRecommendations |-> FALSE, InferenceRecommendations |-> <<>>]

\* create_inference_recommendations_job as the system of record answers it:
\* a name that is already registered is refused.
CreateAccepted(js, name) == name \notin DOMAIN js

\* A registry that takes the new job in place of the registered one.
CreateJobOverwrite(js, name) == (name :> NewJob(name)) @@ js

CreateJob(js, name) == IF CreateAccepted(js, name) THEN js @@ (name :> NewJob(name)) ELSE js

\* describe_inference_recommendations_job: the record as it is now.
DescribeJob(js, name) == js[name]

\* create_training_job against the registry of training job names.
CreateTrainingJob(names, name) == names \cup {name}

\* A life cycle in which a stopped job is picked up again.
NextStatusesRestart(s) ==
    CASE s = "PENDING" -> {"IN_PROGRESS"}
      [] s = "IN_PROGRESS" -> {"COMPLETED", "STOPPED", "FAILED"}
      [] s = "STOPPED" -> {"IN_PROGRESS"}
      [] OTHER -> {}

\* The life cycle of a job inside the service.
NextStatuses(s) ==
    CASE s = "PENDING" -> {"IN_PROGRESS"}
      [] s = "IN_PROGRESS" -> {"COMPLETED", "STOPPED", "FAILED"}
      [] OTHER -> {}

\* The records a job may carry once it has moved to status s; lists are the
\* recommendation lists the service can come up with.
Outcomes(old, s, lists) ==
    CASE s = "COMPLETED" ->
           {[old EXCEPT !.Status = s, !.HasRecommendations = TRUE,
                        !.InferenceRecommendations = l] : l \in lists}
      [] s = "STOPPED" ->
           {[old EXCEPT !.Status = s, !.HasRecommendations = h] : h \in BOOLEAN}
      [] s = "FAILED" ->
           {[old EXCEPT !.Status = s, !.FailureReason = r, !.HasRecommendations = h] :
               r \in FailureReasons, h \in BOOLEAN}
      [] OTHER -> {[old EXCEPT !.Status = s]}

\* ------------------------------------------------------------- the client

\* A status test that forgets STOPPED.
IsTerminalStatusNoStopped(s) == s \in {"COMPLETED", "FAILED"}

\* if inference_recommender_job["Status"] in ["COMPLETED", "STOPPED", "FAILED"]
IsTerminalStatus(s) == s \in {"COMPLETED", "STOPPED", "FAILED"}

\* A test that also takes a stopped job for a failed one.
IsFailedStatusOrStopped(s) == s \in {"FAILED", "STOPPED"}

\* if inference_recommender_job["Status"] == "FAILED"
IsFailedStatus(s) == s = "FAILED"

\* A merge that keeps a's value where both have the key.
MergeDictsFirstWins(a, b) ==
    [k \in DOMAIN a \cup DOMAIN b |-> IF k \in DOMAIN a THEN a[k] ELSE b[k]]

\* {**a, **b}: the keys of both, b's value where both have the key.
MergeDicts(a, b) == [k \in DOMAIN a \cup DOMAIN b |-> IF k \in DOMAIN b THEN b[k] ELSE a[k]]

\* {**x["EndpointConfiguration"], **x["ModelConfiguration"], **x["Metrics"]}
FlattenRecord(x) ==
    MergeDicts(MergeDicts(x.EndpointConfiguration, x.ModelConfiguration), x.Metrics)

\* A comprehension that walks the list backwards.
FlattenAllReversed(recs) == [i \in 1..Len(recs) |-> FlattenRecord(recs[Len(recs) + 1 - i])]

\* data = [ {...} for x in inference_recommender_job["InferenceRecommendations"] ]
FlattenAll(recs) == [i \in 1..Len(recs) |-> FlattenRecord(recs[i])]

\* pd.DataFrame(data): one row per dict, the columns are the keys of all of
\* them, a row that lacks a column holds NaN there.
DataFrame(d) ==
    LET cols == UNION {DOMAIN d[i] : i \in 1..Len(d)}
    IN  [columns |-> cols,
         rows |-> [i \in 1..Len(d) |->
                     [c \in cols |-> IF c \in DOMAIN d[i] THEN d[i][c] ELSE "NaN"]]]

\* df.drop(label, inplace=True, axis=1) raises KeyError when no column has
\* the label (errors="raise" is the default).
DropRaises(t, label) == label \notin t.columns

\* A drop without inplace=True: df keeps the column.
DropColumnNotInPlace(t, label) == t

DropColumn(t, label) ==
    [columns |-> t.columns \ {label},
     rows |-> [i \in 1..Len(t.rows) |-> [c \in t.columns \ {label} |-> t.rows[i][c]]]]

\* df before any aggregation cell ran.
NoTable == [columns |-> {"<undefined>"}, rows |-> <<>>]

EmptyTable == [columns |-> {}, rows |-> <<>>]

JobKinds == {"default", "advanced"}

Halted == <<"end", "halted">>

Done == <<"end", "done">>

\* A notebook that submits the advanced job right after the default one.
AfterCreateSubmitsNext(j) ==
    IF j = "default" THEN <<"advanced", "name">> ELSE <<j, "poll_init">>

\* The cell after the create call of job j: its poll.
AfterCreate(j) == <<j, "poll_init">>

\* The cell after the aggregation cell of job j.
AfterAggregation(j) == IF j = "default" THEN <<"advanced", "name">> ELSE <<"end", "telemetry">>

\* ------------------------------------------------------------ remote calls

\* What a remote call can raise on its own account: a failure that a second
\* attempt might not meet, and one that every attempt meets.
CallErrors == {"ThrottlingException", "ValidationException"}

CallOutcomes == {"ok"} \cup CallErrors

\* A client that tries a throttled call again.
AfterFailureRetry(p, e) == IF e = "ThrottlingException" THEN p ELSE Halted

\* A client that deletes the endpoint when a cell of the training notebook raises.
AfterFailureCleanup(p, e) == IF p[1] = "training" THEN <<"training", "delete">> ELSE Halted

\* No cell catches an exception: the cell at p that raised e ends the run.
AfterFailure(p, e) == Halted

\* ------------------------------------------------ uploads and the registry

NoUrl == <<"", "", "">>

\* upload_data(path, key_prefix): the location the object store gives back.
UploadData(path, key_prefix) == <<"s3://default-bucket", key_prefix, path>>

\* "{}-cpu-models-".format(framework) + str(round(time.time()))
ModelPackageGroupName(t) == <<"tensorflow-cpu-models-", RoundSeconds(t)>>

NoArn == <<NoName, 0>>

\* The identifier of version v of the group.
ModelPackageArn(group, v) == <<group, v>>

\* A package request that leaves the model data location out.
CreateModelPackageInputNoModelData(group, payload, model) ==
    [ModelPackageGroupName |-> group, SamplePayloadUrl |-> payload, ModelDataUrl |-> NoUrl]

\* create_model_package_input_dict, once the inference specification with
\* its ModelDataUrl was merged in.
CreateModelPackageInput(group, payload, model) ==
    [ModelPackageGroupName |-> group, SamplePayloadUrl |-> payload, ModelDataUrl |-> model]

\* A job request that names the version after the registered one.
InputConfigNextVersion(arn) == [ModelPackageVersionArn |-> <<arn[1], arn[2] + 1>>]

\* InputConfig={"ModelPackageVersionArn": model_package_arn, ...}
InputConfig(arn) == [ModelPackageVersionArn |-> arn]

\* instance_type = "ml.c5.xlarge"
instance_type == "ml.c5.xlarge"

\* A sweep over more values than the job may test.
env_parameter_rangesWide ==
    <<[Name |-> "OMP_NUM_THREADS",
       Value |-> <<"1", "2", "3", "4", "5", "6", "7", "8", "9", "10", "11">>]>>

\* env_parameter_ranges = [{"Name": "OMP_NUM_THREADS", "Value": ["2", "4", "10"]}]
env_parameter_ranges == <<[Name |-> "OMP_NUM_THREADS", Value |-> <<"2", "4", "10">>]>>

max_number_of_tests == 10

max_parallel_tests == 1

\* "EndpointConfigurations": [{"InstanceType": instance_type,
\*     "EnvironmentParameterRanges": {"CategoricalParameterRanges": env_parameter_ranges}}]
EndpointConfigurations ==
    <<[InstanceType |-> instance_type, EnvironmentParameterRanges |-> env_parameter_ranges]>>

\* "ResourceLimit": {"MaxNumberOfTests": ..., "MaxParallelOfTests": ...}
ResourceLimit ==
    [MaxNumberOfTests |-> max_number_of_tests, MaxParallelOfTests |-> max_parallel_tests]

\* What the InputConfig of job j holds besides the model package: the
\* advanced job names the configurations to test and its limits.
LoadTestConfig(j) ==
    IF j = "advanced"
    THEN [EndpointConfigurations |-> EndpointConfigurations, ResourceLimit |-> ResourceLimit]
    ELSE <<>>

\* create_model_package_group as the registry answers it: a name that is
\* already registered is refused.
CreateGroupAccepted(gs, name) == name \notin DOMAIN gs

\* A registry that takes the call for an existing name and starts the group anew.
CreateGroupAnew(gs, name) == (name :> <<>>) @@ gs

CreateGroup(gs, name) == IF CreateGroupAccepted(gs, name) THEN gs @@ (name :> <<>>) ELSE gs

\* create_model_package needs its group.
CreatePackageAccepted(gs, req) == req.ModelPackageGroupName \in DOMAIN gs

\* The package becomes the next version of its group.
CreatePackage(gs, req) ==
    IF CreatePackageAccepted(gs, req)
    THEN [gs EXCEPT ![req.ModelPackageGroupName] = Append(@, req)]
    ELSE gs

\* The identifier create_model_package returns.
CreatePackageArn(gs, req) ==
    ModelPackageArn(req.ModelPackageGroupName, Len(gs[req.ModelPackageGroupName]) + 1)

\* The group an earlier run of the notebook registered half a second ago,
\* with its one package.
EarlierGroup ==
    ModelPackageGroupName(0) :>
       <<CreateModelPackageInput(ModelPackageGroupName(0), UploadData("payload.tar.gz", "payload"),
                                 UploadData("tf-model.tar.gz", "model"))>>

\* ------------------------------------------------------ the training script

\* Names are kept as their words and separators, so that "n-estimators" and
\* "n_estimators" are told apart the way the parser tells them apart.
IsPrefix(s, t) == Len(s) <= Len(t) /\ \A i \in 1..Len(s) : s[i] = t[i]

\* The decimal numerals the notebook writes.
Numeral == (2 :> "2") @@ (3 :> "3") @@ (10 :> "10") @@ (100 :> "100") @@ (300 :> "300")

\* str(n), as the SDK encodes a number among the hyperparameters.
StrOfInt(n) == Numeral[n]

\* type=int on an argument.
IntOfStr(s) == CHOOSE n \in DOMAIN Numeral : Numeral[n] = s

FeaturesValue == "MedInc HouseAge AveRooms AveBedrms Population AveOccup Latitude Longitude"

\* parser.add_argument(...) of script.py, for the hyperparameters.
ParserOptions ==
    { [option |-> <<"--", "n", "-", "estimators">>, type |-> "int", default |-> 10],
      [option |-> <<"--", "min", "-", "samples", "-", "leaf">>, type |-> "int", default |-> 3],
      [option |-> <<"--", "features">>, type |-> "str", default |-> "None"],
      [option |-> <<"--", "target">>, type |-> "str", default |-> "None"] }

\* argparse names the attribute after the option: the leading dashes go, the
\* inner ones become underscores.
DestOf(option) ==
    [i \in 1..(Len(option) - 1) |-> IF option[i + 1] = "-" THEN "_" ELSE option[i + 1]]

\* hyperparameters={...} of the SKLearn estimator.
EstimatorHyperparameters ==
    (<<"n", "-", "estimators">> :> StrOfInt(100))
    @@ (<<"min", "-", "samples", "-", "leaf">> :> StrOfInt(3))
    @@ (<<"features">> :> FeaturesValue) @@ (<<"target">> :> "target")

\* HyperParameters={...} of create_training_job, without the sagemaker_*
\* entries, which the container keeps to itself.
Boto3HyperParameters ==
    (<<"n", "_", "estimators">> :> "300")
    @@ (<<"min", "_", "samples", "_", "leaf">> :> "3")
    @@ (<<"features">> :> FeaturesValue) @@ (<<"target">> :> "target")

\* The container starts the script with one "--key value" pair per
\* hyperparameter.
ToCmdArgs(hp) == {[flag |-> <<"--">> \o k, value |-> hp[k]] : k \in DOMAIN hp}

\* The options a flag stands for: the option it spells, or else the options
\* it abbreviates.
OptionsFor(flag) ==
    IF \E o \in ParserOptions : o.option = flag
    THEN {o \in ParserOptions : o.option = flag}
    ELSE {o \in ParserOptions : IsPrefix(flag, o.option)}

\* A flag is recognised when it stands for exactly one option.
Recognised(flag) == Cardinality(OptionsFor(flag)) = 1

\* The arguments of the command line that set option o.
ArgsFor(o, cmd) == {a \in cmd : Recognised(a.flag) /\ o \in OptionsFor(a.flag)}

Converted(o, v) == IF o.type = "int" THEN IntOfStr(v) ELSE v

\* args, _ = parser.parse_known_args(): an option takes the value of the
\* argument that sets it, or its default; what no option claims is left over.
ParseKnownArgs(cmd) ==
    [d \in {DestOf(o.option) : o \in ParserOptions} |->
        LET o == CHOOSE x \in ParserOptions : DestOf(x.option) = d
        IN  IF ArgsFor(o, cmd) = {}
            THEN o.default
            ELSE Converted(o, (CHOOSE a \in ArgsFor(o, cmd) : TRUE).value)]

\* RandomForestRegressor(n_estimators=args.n_estimators,
\*                       min_samples_leaf=args.min_samples_leaf, ...)
TrainedWith(args) ==
    [n_estimators |-> args[<<"n", "_", "estimators">>],
     min_samples_leaf |-> args[<<"min", "_", "samples", "_", "leaf">>]]

NotTrained == [n_estimators |-> 0, min_samples_leaf |-> 0]

NoHyperparameters == <<>> :> ""

TrainingPaths == {"sdk", "boto3"}

\* The hyperparameters a submission path sends.
HyperparametersOf(path) ==
    IF path = "sdk" THEN EstimatorHyperparameters ELSE Boto3HyperParameters

\* Printed text is kept character by character, so that the pattern is
\* matched against what the script prints and not against a name for it.
AEat == <<"A", "E", "-", "a", "t", "-">>

ThPercentile == <<"t", "h", "-", "p", "e", "r", "c", "e", "n", "t", "i", "l", "e", ":", " ">>

\* for q in [10, 50, 90]
Percentiles == <<10, 50, 90>>

\* str(q)
StrOfPercentile == (10 :> <<"1", "0">>) @@ (50 :> <<"5", "0">>) @@ (90 :> <<"9", "0">>)

\* str(np.percentile(a=abs_err, q=q)) for the three percentiles of a run:
\* absolute errors are not negative, and a float prints in positional or in
\* exponent notation.
AbsErrPercentiles ==
    { << <<"0", ".", "1">>, <<"0", ".", "5">>, <<"0", ".", "9">> >>,
      << <<"3", "e", "-", "0", "5">>, <<"0", ".", "2", "5">>, <<"5", "0", ".", "0">> >> }

\* "AE-at-" + str(q) + "th-percentile: " + str(np.percentile(a=abs_err, q=q))
PrintedLine(q, v) == AEat \o StrOfPercentile[q] \o ThPercentile \o v

\* The lines the percentile loop prints, in order.
ScriptOutput(vs) == [i \in 1..Len(Percentiles) |-> PrintedLine(Percentiles[i], vs[i])]

\* A pattern is a sequence of elements: one character of a set ("one"), one
\* or more of a set ("plus"), any characters ("star"), the end of the line
\* ("end").
Literal(cs) == [i \in 1..Len(cs) |-> [kind |-> "one", set |-> {cs[i]}]]

DigitOrDot == {"0", "1", "2", "3", "4", "5", "6", "7", "8", "9", "."}

\* A pattern that takes the line of any percentile.
MetricRegexAnyPercentile ==
    Literal(AEat) \o <<[kind |-> "plus", set |-> DigitOrDot]>> \o Literal(ThPercentile)
        \o <<[kind |-> "plus", set |-> DigitOrDot], [kind |-> "star", set |-> {}],
              [kind |-> "end", set |-> {}]>>

\* "AE-at-50th-percentile: ([0-9.]+).*$"
MetricRegex ==
    Literal(AEat \o <<"5", "0">> \o ThPercentile)
        \o <<[kind |-> "plus", set |-> DigitOrDot], [kind |-> "star", set |-> {}],
              [kind |-> "end", set |-> {}]>>

\* Elements i.. of the pattern match the line from position k on.
RECURSIVE MatchesFrom(_, _, _, _)
MatchesFrom(re, i, line, k) ==
    IF i > Len(re)
    THEN TRUE
    ELSE CASE re[i].kind = "one" ->
                /\ k <= Len(line)
                /\ line[k] \in re[i].set
                /\ MatchesFrom(re, i + 1, line, k + 1)
           [] re[i].kind = "plus" ->
                \E n \in 1..(Len(line) + 1 - k) :
                   /\ \A m \in k..(k + n - 1) : line[m] \in re[i].set
                   /\ MatchesFrom(re, i + 1, line, k + n)
           [] re[i].kind = "star" ->
                \E n \in 0..(Len(line) + 1 - k) : MatchesFrom(re, i + 1, line, k + n)
           [] OTHER -> k = Len(line) + 1 /\ MatchesFrom(re, i + 1, line, k)

\* The pattern is searched for in the line: a match may start anywhere.
Search(re, line) == \E k \in 1..(Len(line) + 1) : MatchesFrom(re, 1, line, k)

\* metric_definitions=[...] of the SKLearn estimator
EstimatorMetricDefinitions == {[Name |-> "median-AE", Regex |-> MetricRegex]}

\* "MetricDefinitions": [...] of create_training_job
Boto3MetricDefinitions == {[Name |-> "median-AE", Regex |-> MetricRegex]}

\* metric_definitions=[...] of the HyperparameterTuner
TunerMetricDefinitions == {[Name |-> "median-AE", Regex |-> MetricRegex]}

\* objective_metric_name="median-AE"
objective_metric_name == "median-AE"

\* The metric definitions a submission path sends.
MetricDefinitionsOf(path) ==
    IF path = "sdk" THEN EstimatorMetricDefinitions ELSE Boto3MetricDefinitions

\* The platform reads a job's log line by line and records, per metric
\* definition, the lines its pattern is found in.
ExtractMetrics(defs, log) ==
    {m \in [Name : {d.Name : d \in defs}, line : DOMAIN log] :
        \E d \in defs : d.Name = m.Name /\ Search(d.Regex, log[m.line])}

\* ------------------------------------------- remote training and serving

TrainingTerminal == {"Completed", "Failed", "Stopped"}

NoRun ==
    [status |-> "none", hp |-> NoHyperparameters, trained |-> NotTrained,
     defs |-> {}, log |-> <<>>, metrics |-> {}]

\* A training job that was just accepted.
SubmittedRun(hp, defs) ==
    [status |-> "InProgress", hp |-> hp, trained |-> NotTrained,
     defs |-> defs, log |-> <<>>, metrics |-> {}]

\* The job ran script.py to its end, with the hyperparameters as its
\* command line; vs is what the percentiles of its absolute error print as.
CompletedRun(run, vs) ==
    [run EXCEPT !.status = "Completed",
                !.trained = TrainedWith(ParseKnownArgs(ToCmdArgs(run.hp))),
                !.log = ScriptOutput(vs),
                !.metrics = ExtractMetrics(run.defs, ScriptOutput(vs))]

\* The records a training job may end with.
RunOutcomes(run) ==
    {CompletedRun(run, vs) : vs \in AbsErrPercentiles}
        \cup {[run EXCEPT !.status = "Failed"], [run EXCEPT !.status = "Stopped"]}

\* The model artifact of a training job.
ArtifactOf(path) == <<"s3://default-bucket", path, "model.tar.gz">>

\* A tuning job: its status, and whether it has launched a training job yet.
NoTuning == [status |-> "none", rows |-> FALSE]

SubmittedTuning == [status |-> "InProgress", rows |-> FALSE]

\* The statuses a tuning job may end with: it completes only with trials.
TuningOutcomes(t) == IF t.rows THEN TrainingTerminal ELSE {"Failed", "Stopped"}

\* Optimizer.analytics().dataframe(): one row per training job of the tuning job.
Analytics(t) == IF t.rows THEN "rows" ELSE "empty"

\* The endpoint: none yet, in service, or deleted.
CreateEndpoint(e) == "InService"

DeleteEndpoint(e) == "Deleted"

\* ------------------------------------------------ the training notebook

\* sklearn_estimator.latest_training_job: the job sklearn_estimator.fit
\* submitted.
LatestTrainingJob == "sdk"

\* A notebook that reads the artifact location before it waits for the job.
TrainingCellsDescribeFirst ==
    <<"upload_data", "estimator_fit", "upload_source", "create", "tuner_fit", "tuner_results",
      "describe", "wait", "deploy", "predict", "invoke_csv", "invoke_npy", "delete">>

\* A notebook that deletes the endpoint before the last invocation.
TrainingCellsDeleteEarly ==
    <<"upload_data", "estimator_fit", "upload_source", "create", "tuner_fit", "tuner_results",
      "wait", "describe", "deploy", "predict", "invoke_csv", "delete", "invoke_npy">>

\* The cells of the training notebook that call the platform, in their order.
TrainingCells ==
    <<"upload_data", "estimator_fit", "upload_source", "create", "tuner_fit", "tuner_results",
      "wait", "describe", "deploy", "predict", "invoke_csv", "invoke_npy", "delete">>

CellIndex(c) == CHOOSE i \in 1..Len(TrainingCells) : TrainingCells[i] = c

\* The position of the run after cell c.
NextCell(c) ==
    IF CellIndex(c) = Len(TrainingCells)
    THEN Done
    ELSE <<"training", TrainingCells[CellIndex(c) + 1]>>

\* A loop that also sleeps after the status that ends it.
SleepsAfterAlways(status) == TRUE

\* if ... in ["COMPLETED", "STOPPED", "FAILED"]: finished = True
\* else: time.sleep(300)
SleepsAfter(status) == ~IsTerminalStatus(status)

\* time.sleep(1) in the tuner results loop.
ResultsInterval == 1

VARIABLES
    notebook,                   \* which notebook this run executes
    serviceLists,               \* remote: the recommendation lists the service can return
    pc,                         \* the cell (and loop position) the run is at
    err,                        \* the exception that stopped the run
    now,                        \* the clock, in half seconds
    jobs,                       \* remote: recommendation job name -> record
    trainingJobs,               \* remote: training job names in use
    default_job_name,
    advanced_job_name,
    finished,
    inference_recommender_job,
    df,
    printed,                    \* what the report after a poll printed, per job
    nQueries,                   \* describe calls of the current poll
    nSleeps,                    \* sleeps of the current poll
    nTerminal,                  \* describe calls of the current poll that read a terminal status
    pollEnd,                    \* per job, the status its poll ended with
    aggInput,                   \* per job, what its aggregation cell read
    submissions,                \* the create calls of this run, in order
    telemetryJob,               \* the job name handed to get_endpoint_metrics
    calls,                      \* the remote calls of this run outside its loops, in order
    sleepLog,                   \* the intervals this run has slept, per loop
    model_url,
    sample_payload_url,
    model_package_group_name,
    model_package_arn,
    groups,                     \* remote: model package group name -> its packages
    trainRuns,                  \* remote: the training job of each submission path
    tuning,                     \* remote: the tuning job
    fitWaits,                   \* whether the installed SDK's Optimizer.fit waits for the job
    results,                    \* the tuner results table: unset, empty or rows
    nResultQueries,             \* analytics calls of the tuner results cell
    resultsEnd,                 \* the tuning job's status when the results loop was left
    artifact,
    model_data,                 \* the artifact the served model was built from
    endpoint,                   \* remote: the endpoint
    invocations                 \* the invocations of this run, with the endpoint as it was

vars ==
    <<notebook, serviceLists, pc, err, now, jobs, trainingJobs, default_job_name, advanced_job_name,
      finished, inference_recommender_job, df, printed, nQueries, nSleeps, nTerminal,
      pollEnd, aggInput, submissions, telemetryJob, calls, sleepLog, model_url,
      sample_payload_url, model_package_group_name, model_package_arn, groups, trainRuns,
      tuning, fitWaits, results, nResultQueries, resultsEnd, artifact, model_data, endpoint,
      invocations>>

clientVars ==
    <<notebook, pc, err, default_job_name, advanced_job_name, finished,
      inference_recommender_job, df, printed, nQueries, nSleeps, nTerminal, pollEnd,
      aggInput, submissions, telemetryJob, calls, sleepLog, model_url, sample_payload_url,
      model_package_group_name, model_package_arn, results, nResultQueries, resultsEnd,
      artifact, model_data, invocations>>

\* What the cells before the first job leave behind, and the registry.
registryVars ==
    <<model_url, sample_payload_url, model_package_group_name, model_package_arn, groups>>

\* The state only the training notebook touches.
trainingVars ==
    <<trainRuns, tuning, fitWaits, results, nResultQueries, resultsEnd, artifact,
      model_data, endpoint,
      invocations>>

\* The state only the job cells of the recommender notebook touch.
jobVars ==
    <<jobs, default_job_name, advanced_job_name, finished, inference_recommender_job, df,
      printed, nQueries, nSleeps, nTerminal, pollEnd, aggInput, telemetryJob>>

JobName(j) == IF j = "default" THEN default_job_name ELSE advanced_job_name

\* A poll cell that takes the flag as the poll before it left it.
PollStartFlagKept(f) == f

\* finished = False
PollStartFlag(f) == FALSE

\* A loop that gives up after a number of queries.
LoopContinuesBounded(f) == ~f /\ nQueries < MaxCount

\* while not finished
LoopContinues(f) == ~f

\* A report that formats the failure reason whatever the status is.
ReportOfAlwaysReads(rec) ==
    [kind |-> IF IsFailedStatus(rec.Status) THEN "failed" ELSE "completed",
     reasonRead |-> TRUE, reason |-> rec.FailureReason]

\* What the cell after the poll loop prints for the record the loop ended with.
ReportOf(rec) ==
    IF IsFailedStatus(rec.Status)
    THEN [kind |-> "failed", reasonRead |-> TRUE, reason |-> rec.FailureReason]
    ELSE [kind |-> "completed", reasonRead |-> FALSE, reason |-> ""]

NoReport == [kind |-> "none", reasonRead |-> FALSE, reason |-> ""]


\* The aggregation cell on job record rec: the table it leaves in df and the
\* exception it raises, if any.  A record without the
\* "InferenceRecommendations" key raises before df is assigned; a table
\* without a VariantName column raises in df.drop, after df was assigned.
AggregationResult(rec, old) ==
    IF ~rec.HasRecommendations
    THEN [df |-> old, err |-> "KeyError: InferenceRecommendations"]
    ELSE LET t == DataFrame(FlattenAll(rec.InferenceRecommendations))
         IN  IF DropRaises(t, "VariantName")
             THEN [df |-> t, err |-> "KeyError: VariantName"]
             ELSE [df |-> DropColumn(t, "VariantName"), err |-> "none"]

\* The clock after time.sleep(PollInterval).
AfterSleep(t) == Min(t + 2 * PollInterval, MaxTime)

\* The clock after time.sleep(ResultsInterval).
AfterResultsSleep(t) == Min(t + 2 * ResultsInterval, MaxTime)

\* A telemetry cell that builds the job name anew.
TelemetryJobNameAnew(d, a) == DefaultJobName(now)

\* get_endpoint_metrics(sm_client, cw_client, region, default_job_name, ...)
TelemetryJobName(d, a) == d

\* The name under which the create call of job j is logged.
CreateJobOp(j) == IF j = "default" THEN "create_job_default" ELSE "create_job_advanced"

\* The log of remote calls with the call of op and its outcome r added.
Logged(op, r) == Append(calls, [op |-> op, ok |-> r = "ok"])

EarlierJobs == {DefaultJobName(0), AdvancedJobName(0)}

InitWith(lists) ==
    /\ notebook \in {"recommender", "training"}
    /\ serviceLists = lists
    /\ pc = IF notebook = "recommender"
            THEN <<"setup", "upload_model">>
            ELSE <<"training", TrainingCells[1]>>
    /\ err = "none"
    /\ now = 1
    \* an earlier run of the notebook may have submitted a job half a second
    \* ago, which its operator stopped
    /\ jobs \in {<<>>} \cup {n :> StoppedJob(n) : n \in EarlierJobs}
    /\ trainingJobs \in {{}, {TrainingJobName(0)}}
    /\ groups \in {<<>>, EarlierGroup}
    /\ notebook = "recommender" => trainingJobs = {}
    /\ notebook = "training" => jobs = <<>> /\ groups = <<>>
    /\ jobs # <<>> => groups = <<>>
    /\ default_job_name = NoName
    /\ advanced_job_name = NoName
    /\ finished = FALSE
    /\ inference_recommender_job = NoJob
    /\ df = NoTable
    /\ printed = [j \in JobKinds |-> NoReport]
    /\ nQueries = 0
    /\ nSleeps = 0
    /\ nTerminal = 0
    /\ pollEnd = [j \in JobKinds |-> "none"]
    /\ aggInput = [j \in JobKinds |-> [ran |-> FALSE, job |-> NoJob]]
    /\ submissions = <<>>
    /\ telemetryJob = NoName
    /\ calls = <<>>
    /\ sleepLog = {}
    /\ model_url = NoUrl
    /\ sample_payload_url = NoUrl
    /\ model_package_group_name = NoName
    /\ model_package_arn = NoArn
    /\ trainRuns = [p \in TrainingPaths |-> NoRun]
    /\ tuning = NoTuning
    /\ fitWaits \in BOOLEAN
    /\ notebook = "recommender" => fitWaits
    /\ results = "unset"
    /\ nResultQueries = 0
    /\ resultsEnd = "none"
    /\ artifact = NoUrl
    /\ model_data = NoUrl
    /\ endpoint = "none"
    /\ invocations = <<>>

Init == InitWith(RecLists)

\* A remote call of the cell at pc came back with error r: the cell raises.
Raise(op, r) ==
    /\ r \in CallErrors
    /\ calls' = Logged(op, r)
    /\ err' = r
    /\ pc' = AfterFailure(pc, r)

\* ------------------------------------------------- the recommender notebook

\* model_url = sagemaker_session.upload_data(path=model_archive_name, key_prefix="model")
UploadModel ==
    /\ pc = <<"setup", "upload_model">>
    /\ \E r \in CallOutcomes :
          \/ /\ r = "ok"
             /\ calls' = Logged("upload_model", r)
             /\ model_url' = UploadData("tf-model.tar.gz", "model")
             /\ pc' = <<"setup", "upload_payload">>
             /\ err' = err
          \/ Raise("upload_model", r) /\ UNCHANGED model_url
    /\ UNCHANGED <<notebook, serviceLists, now, trainingJobs, submissions, sleepLog,
                   sample_payload_url, model_package_group_name, model_package_arn, groups>>
    /\ UNCHANGED <<jobVars, trainingVars>>

\* sample_payload_url = sagemaker_session.upload_data(path=payload_archive_name, ...)
UploadPayload ==
    /\ pc = <<"setup", "upload_payload">>
    /\ \E r \in CallOutcomes :
          \/ /\ r = "ok"
             /\ calls' = Logged("upload_payload", r)
             /\ sample_payload_url' = UploadData("payload.tar.gz", "payload")
             /\ pc' = <<"setup", "group">>
             /\ err' = err
          \/ Raise("upload_payload", r) /\ UNCHANGED sample_payload_url
    /\ UNCHANGED <<notebook, serviceLists, now, trainingJobs, submissions, sleepLog,
                   model_url, model_package_group_name, model_package_arn, groups>>
    /\ UNCHANGED <<jobVars, trainingVars>>

\* model_package_group_name = ...; sm_client.create_model_package_group(...)
CreateGroupCell ==
    /\ pc = <<"setup", "group">>
    /\ model_package_group_name' = ModelPackageGroupName(now)
    /\ \E r \in CallOutcomes :
          \/ /\ r = "ok"
             /\ CreateGroupAccepted(groups, model_package_group_name')
             /\ calls' = Logged("create_model_package_group", r)
             /\ groups' = CreateGroup(groups, model_package_group_name')
             /\ pc' = <<"setup", "package">>
             /\ err' = err
          \/ /\ r = "ok"
             /\ ~CreateGroupAccepted(groups, model_package_group_name')
             /\ calls' = Logged("create_model_package_group", "ResourceInUse")
             /\ groups' = CreateGroup(groups, model_package_group_name')
             /\ pc' = AfterFailure(pc, "ResourceInUse")
             /\ err' = "ResourceInUse"
          \/ Raise("create_model_package_group", r) /\ UNCHANGED groups
    /\ UNCHANGED <<notebook, serviceLists, now, trainingJobs, submissions, sleepLog,
                   model_url, sample_payload_url, model_package_arn>>
    /\ UNCHANGED <<jobVars, trainingVars>>

\* create_model_package_input_dict.update(...);
\* model_package_arn = sm_client.create_model_package(...)["ModelPackageArn"]
CreatePackageCell ==
    /\ pc = <<"setup", "package">>
    /\ \E r \in CallOutcomes :
          LET req == CreateModelPackageInput(model_package_group_name, sample_payload_url,
                                             model_url)
          IN  \/ /\ r = "ok"
                 /\ CreatePackageAccepted(groups, req)
                 /\ calls' = Logged("create_model_package", r)
                 /\ groups' = CreatePackage(groups, req)
                 /\ model_package_arn' = CreatePackageArn(groups, req)
                 /\ pc' = <<"default", "name">>
                 /\ err' = err
              \/ /\ r = "ok"
                 /\ ~CreatePackageAccepted(groups, req)
                 /\ calls' = Logged("create_model_package", "ValidationException")
                 /\ pc' = AfterFailure(pc, "ValidationException")
                 /\ err' = "ValidationException"
                 /\ UNCHANGED <<groups, model_package_arn>>
              \/ Raise("create_model_package", r) /\ UNCHANGED <<groups, model_package_arn>>
    /\ UNCHANGED <<notebook, serviceLists, now, trainingJobs, submissions, sleepLog,
                   model_url, sample_payload_url, model_package_group_name>>
    /\ UNCHANGED <<jobVars, trainingVars>>

\* default_job_name = ... / advanced_job_name = ...
NameCell(j) ==
    /\ pc = <<j, "name">>
    /\ IF j = "default"
       THEN default_job_name' = JobNameFor(j, now) /\ UNCHANGED advanced_job_name
       ELSE advanced_job_name' = JobNameFor(j, now) /\ UNCHANGED default_job_name
    /\ pc' = <<j, "create">>
    /\ UNCHANGED <<notebook, serviceLists, err, now, jobs, trainingJobs, finished,
                   inference_recommender_job, df, printed, nQueries, nSleeps, nTerminal,
                   pollEnd, aggInput, submissions, telemetryJob, calls, sleepLog>>
    /\ UNCHANGED <<registryVars, trainingVars>>

\* sm_client.create_inference_recommendations_job(JobName=..., ...)
CreateCell(j) ==
    /\ pc = <<j, "create">>
    /\ \E r \in CallOutcomes :
          \/ /\ r = "ok"
             /\ submissions' = Append(submissions, [name |-> JobName(j),
                                                    fresh |-> JobName(j) \notin DOMAIN jobs,
                                                    input |-> InputConfig(model_package_arn)]
                                                       @@ LoadTestConfig(j))
             /\ jobs' = CreateJob(jobs, JobName(j))
             /\ IF CreateAccepted(jobs, JobName(j))
                THEN /\ calls' = Logged(CreateJobOp(j), r)
                     /\ pc' = AfterCreate(j)
                     /\ err' = err
                ELSE /\ calls' = Logged(CreateJobOp(j), "ResourceInUse")
                     /\ pc' = AfterFailure(pc, "ResourceInUse")
                     /\ err' = "ResourceInUse"
          \/ Raise(CreateJobOp(j), r) /\ UNCHANGED <<submissions, jobs>>
    /\ UNCHANGED <<notebook, serviceLists, now, trainingJobs, default_job_name,
                   advanced_job_name, finished,
                   inference_recommender_job, df, printed, nQueries, nSleeps, nTerminal,
                   pollEnd, aggInput, telemetryJob, sleepLog>>
    /\ UNCHANGED <<registryVars, trainingVars>>

\* finished = False
PollInit(j) ==
    /\ pc = <<j, "poll_init">>
    /\ finished' = PollStartFlag(finished)
    /\ nQueries' = 0
    /\ nSleeps' = 0
    /\ nTerminal' = 0
    /\ pc' = <<j, "poll">>
    /\ UNCHANGED <<notebook, serviceLists, err, now, jobs, trainingJobs,
                   default_job_name, advanced_job_name,
                   inference_recommender_job, df, printed, pollEnd, aggInput, submissions,
                   telemetryJob, calls, sleepLog>>
    /\ UNCHANGED <<registryVars, trainingVars>>

\* One pass through the body of the while loop.
PollIteration(j) ==
    /\ pc = <<j, "poll">>
    /\ LoopContinues(finished)
    /\ nQueries' = Sat(nQueries)
    /\ \E r \in CallOutcomes :
          \/ /\ r = "ok"
             /\ inference_recommender_job' = DescribeJob(jobs, JobName(j))
             /\ finished' = IsTerminalStatus(inference_recommender_job'.Status)
             /\ nTerminal' = IF finished' THEN Sat(nTerminal) ELSE nTerminal
             /\ IF SleepsAfter(inference_recommender_job'.Status)
                THEN /\ nSleeps' = Sat(nSleeps)
                     /\ sleepLog' = sleepLog \cup {<<j, PollInterval>>}
                     /\ now' = AfterSleep(now)
                ELSE UNCHANGED <<nSleeps, sleepLog, now>>
             /\ UNCHANGED <<pc, err>>
          \/ /\ r \in CallErrors
             /\ err' = r
             /\ pc' = AfterFailure(pc, r)
             /\ UNCHANGED <<inference_recommender_job, finished, nTerminal, nSleeps,
                            sleepLog, now>>
    /\ UNCHANGED <<notebook, serviceLists, jobs, trainingJobs, default_job_name,
                   advanced_job_name,
                   df, printed, pollEnd, aggInput, submissions, telemetryJob, calls>>
    /\ UNCHANGED <<registryVars, trainingVars>>

\* The while test comes out false: the loop is left.
PollExit(j) ==
    /\ pc = <<j, "poll">>
    /\ ~LoopContinues(finished)
    /\ pollEnd' = [pollEnd EXCEPT ![j] = inference_recommender_job.Status]
    /\ pc' = <<j, "report">>
    /\ UNCHANGED <<notebook, serviceLists, err, now, jobs, trainingJobs,
                   default_job_name, advanced_job_name,
                   finished, inference_recommender_job, df, printed, nQueries, nSleeps,
                   nTerminal, aggInput, submissions, telemetryJob, calls, sleepLog>>
    /\ UNCHANGED <<registryVars, trainingVars>>

\* if inference_recommender_job["Status"] == "FAILED": ... else: ...
Report(j) ==
    /\ pc = <<j, "report">>
    /\ printed' = [printed EXCEPT ![j] = ReportOf(inference_recommender_job)]
    /\ pc' = <<j, "agg">>
    /\ UNCHANGED <<notebook, serviceLists, err, now, jobs, trainingJobs,
                   default_job_name, advanced_job_name,
                   finished, inference_recommender_job, df, nQueries, nSleeps, nTerminal,
                   pollEnd, aggInput, submissions, telemetryJob, calls, sleepLog>>
    /\ UNCHANGED <<registryVars, trainingVars>>

\* data = [...]; df = pd.DataFrame(data); df.drop("VariantName", ...); df.head()
Aggregate(j) ==
    /\ pc = <<j, "agg">>
    /\ aggInput' = [aggInput EXCEPT ![j] = [ran |-> TRUE, job |-> inference_recommender_job]]
    /\ df' = AggregationResult(inference_recommender_job, df).df
    /\ err' = AggregationResult(inference_recommender_job, df).err
    /\ pc' = IF err' = "none" THEN AfterAggregation(j) ELSE AfterFailure(pc, err')
    /\ UNCHANGED <<notebook, serviceLists, now, jobs, trainingJobs, default_job_name,
                   advanced_job_name,
                   finished, inference_recommender_job, printed, nQueries, nSleeps,
                   nTerminal, pollEnd, submissions, telemetryJob, calls, sleepLog>>
    /\ UNCHANGED <<registryVars, trainingVars>>

\* df_cw = get_endpoint_metrics(sm_client, cw_client, region, default_job_name, ...)
Telemetry ==
    /\ pc = <<"end", "telemetry">>
    /\ telemetryJob' = TelemetryJobName(default_job_name, advanced_job_name)
    /\ \E r \in CallOutcomes :
          \/ /\ r = "ok"
             /\ calls' = Logged("get_endpoint_metrics", r)
             /\ pc' = Done
             /\ err' = err
          \/ Raise("get_endpoint_metrics", r)
    /\ UNCHANGED <<notebook, serviceLists, now, jobs, trainingJobs,
                   default_job_name, advanced_job_name,
                   finished, inference_recommender_job, df, printed, nQueries, nSleeps,
                   nTerminal, pollEnd, aggInput, submissions, sleepLog>>
    /\ UNCHANGED <<registryVars, trainingVars>>

\* --------------------------------------------------- the training notebook

\* trainpath = sess.upload_data(...); testpath = sess.upload_data(...)
UploadDataCell ==
    /\ pc = <<"training", "upload_data">>
    /\ \E r1, r2 \in CallOutcomes :
          \/ /\ r1 = "ok" /\ r2 = "ok"
             /\ calls' = calls \o <<[op |-> "upload_train", ok |-> TRUE],
                                    [op |-> "upload_test", ok |-> TRUE]>>
             /\ pc' = NextCell("upload_data")
             /\ err' = err
          \/ /\ r1 = "ok" /\ r2 \in CallErrors
             /\ calls' = calls \o <<[op |-> "upload_train", ok |-> TRUE],
                                    [op |-> "upload_test", ok |-> FALSE]>>
             /\ pc' = AfterFailure(pc, r2)
             /\ err' = r2
          \/ r1 = r2 /\ Raise("upload_train", r1)
    /\ UNCHANGED <<notebook, serviceLists, now, trainingJobs, submissions, sleepLog>>
    /\ UNCHANGED <<jobVars, registryVars, trainingVars>>

\* sklearn_estimator.fit({"train": trainpath, "test": testpath}, wait=False)
EstimatorFit ==
    /\ pc = <<"training", "estimator_fit">>
    /\ \E r \in CallOutcomes :
          \/ /\ r = "ok"
             /\ calls' = Logged("estimator_fit", r)
             /\ trainRuns' = [trainRuns EXCEPT
                                 !["sdk"] = SubmittedRun(HyperparametersOf("sdk"),
                                                         MetricDefinitionsOf("sdk"))]
             /\ pc' = NextCell("estimator_fit")
             /\ err' = err
          \/ Raise("estimator_fit", r) /\ UNCHANGED trainRuns
    /\ UNCHANGED <<notebook, serviceLists, now, trainingJobs, submissions, sleepLog,
                   tuning, fitWaits, resultsEnd, results, nResultQueries, artifact,
                   model_data, endpoint,
                   invocations>>
    /\ UNCHANGED <<jobVars, registryVars>>

\* s3.upload_file(source, bucket, project + "/" + source)
UploadSource ==
    /\ pc = <<"training", "upload_source">>
    /\ \E r \in CallOutcomes :
          \/ /\ r = "ok"
             /\ calls' = Logged("upload_source", r)
             /\ pc' = NextCell("upload_source")
             /\ err' = err
          \/ Raise("upload_source", r)
    /\ UNCHANGED <<notebook, serviceLists, now, trainingJobs, submissions, sleepLog>>
    /\ UNCHANGED <<jobVars, registryVars, trainingVars>>

\* sm_boto3.create_training_job(TrainingJobName="sklearn-boto3-" + ..., ...)
TrainingCreate ==
    /\ pc = <<"training", "create">>
    /\ \E r \in CallOutcomes :
          \/ /\ r = "ok"
             /\ submissions' =
                   Append(submissions, [name |-> TrainingJobName(now),
                                        fresh |-> TrainingJobName(now) \notin trainingJobs,
                                        input |-> HyperparametersOf("boto3")])
             /\ trainingJobs' = CreateTrainingJob(trainingJobs, TrainingJobName(now))
             /\ IF TrainingJobName(now) \notin trainingJobs
                THEN /\ calls' = Logged("create_training_job", r)
                     /\ trainRuns' = [trainRuns EXCEPT
                                         !["boto3"] = SubmittedRun(HyperparametersOf("boto3"),
                                                                   MetricDefinitionsOf("boto3"))]
                     /\ pc' = NextCell("create")
                     /\ err' = err
                ELSE /\ calls' = Logged("create_training_job", "ResourceInUse")
                     /\ pc' = AfterFailure(pc, "ResourceInUse")
                     /\ err' = "ResourceInUse"
                     /\ UNCHANGED trainRuns
          \/ Raise("create_training_job", r) /\ UNCHANGED <<submissions, trainingJobs, trainRuns>>
    /\ UNCHANGED <<notebook, serviceLists, now, sleepLog,
                   tuning, fitWaits, resultsEnd, results, nResultQueries, artifact,
                   model_data, endpoint,
                   invocations>>
    /\ UNCHANGED <<jobVars, registryVars>>

\* Optimizer.fit({"train": trainpath, "test": testpath}): the tuning job is
\* submitted.  Whether the call then waits for the job is the SDK's default.
TunerFit ==
    /\ pc = <<"training", "tuner_fit">>
    /\ \E r \in CallOutcomes :
          \/ /\ r = "ok"
             /\ calls' = Logged("tuner_fit", r)
             /\ tuning' = SubmittedTuning
             /\ pc' = IF fitWaits THEN <<"training", "tuner_wait">> ELSE NextCell("tuner_fit")
             /\ err' = err
          \/ Raise("tuner_fit", r) /\ UNCHANGED tuning
    /\ UNCHANGED <<notebook, serviceLists, now, trainingJobs, submissions, sleepLog,
                   trainRuns, fitWaits, resultsEnd, results, nResultQueries, artifact,
                   model_data, endpoint,
                   invocations>>
    /\ UNCHANGED <<jobVars, registryVars>>

\* Optimizer.fit returns from its wait: the tuning job has ended, and the
\* wait raises on a failed job.
TunerFitReturns ==
    /\ pc = <<"training", "tuner_wait">>
    /\ tuning.status \in TrainingTerminal
    /\ IF tuning.status = "Failed"
       THEN pc' = AfterFailure(pc, "UnexpectedStatusException")
            /\ err' = "UnexpectedStatusException"
       ELSE pc' = NextCell("tuner_fit") /\ err' = err
    /\ UNCHANGED <<notebook, serviceLists, now, trainingJobs, submissions, calls, sleepLog>>
    /\ UNCHANGED <<jobVars, registryVars, trainingVars>>

\* results = Optimizer.analytics().dataframe(), before the loop
TunerResultsInit ==
    /\ pc = <<"training", "tuner_results">>
    /\ nResultQueries' = 1
    /\ \E r \in CallOutcomes :
          \/ /\ r = "ok"
             /\ results' = Analytics(tuning)
             /\ pc' = <<"training", "tuner_loop">>
             /\ err' = err
          \/ /\ r \in CallErrors
             /\ err' = r
             /\ pc' = AfterFailure(pc, r)
             /\ UNCHANGED results
    /\ UNCHANGED <<notebook, serviceLists, now, trainingJobs, submissions, calls, sleepLog,
                   trainRuns, tuning, fitWaits, resultsEnd, artifact,
                   model_data, endpoint, invocations>>
    /\ UNCHANGED <<jobVars, registryVars>>

\* while results.empty: time.sleep(1); results = Optimizer.analytics().dataframe()
TunerResultsIteration ==
    /\ pc = <<"training", "tuner_loop">>
    /\ results = "empty"
    /\ sleepLog' = sleepLog \cup {<<"tuner", ResultsInterval>>}
    /\ now' = AfterResultsSleep(now)
    /\ nResultQueries' = Sat(nResultQueries)
    /\ \E r \in CallOutcomes :
          \/ /\ r = "ok"
             /\ results' = Analytics(tuning)
             /\ UNCHANGED <<pc, err>>
          \/ /\ r \in CallErrors
             /\ err' = r
             /\ pc' = AfterFailure(pc, r)
             /\ UNCHANGED results
    /\ UNCHANGED <<notebook, serviceLists, trainingJobs, submissions, calls,
                   trainRuns, tuning, fitWaits, resultsEnd, artifact,
                   model_data, endpoint, invocations>>
    /\ UNCHANGED <<jobVars, registryVars>>

\* results.empty is false: the loop is left; results.head()
TunerResultsExit ==
    /\ pc = <<"training", "tuner_loop">>
    /\ results # "empty"
    /\ resultsEnd' = tuning.status
    /\ pc' = NextCell("tuner_results")
    /\ UNCHANGED <<notebook, serviceLists, err, now, trainingJobs, submissions, calls,
                   sleepLog>>
    /\ UNCHANGED <<trainRuns, tuning, fitWaits, results, nResultQueries, artifact,
                   model_data, endpoint,
                   invocations>>
    /\ UNCHANGED <<jobVars, registryVars>>

\* sklearn_estimator.latest_training_job.wait(logs="None"): returns once the
\* job has ended, and raises on a failed job.
WaitCell ==
    /\ pc = <<"training", "wait">>
    /\ trainRuns[LatestTrainingJob].status \in TrainingTerminal
    /\ IF trainRuns[LatestTrainingJob].status = "Failed"
       THEN /\ calls' = Logged("wait", "UnexpectedStatusException")
            /\ pc' = AfterFailure(pc, "UnexpectedStatusException")
            /\ err' = "UnexpectedStatusException"
       ELSE /\ calls' = Logged("wait", "ok")
            /\ pc' = NextCell("wait")
            /\ err' = err
    /\ UNCHANGED <<notebook, serviceLists, now, trainingJobs, submissions, sleepLog>>
    /\ UNCHANGED <<jobVars, registryVars, trainingVars>>

\* artifact = sm_boto3.describe_training_job(...)["ModelArtifacts"]["S3ModelArtifacts"]
DescribeCell ==
    /\ pc = <<"training", "describe">>
    /\ \E r \in CallOutcomes :
          \/ /\ r = "ok"
             /\ calls' = Logged("describe_training_job", r)
             /\ artifact' = ArtifactOf(LatestTrainingJob)
             /\ pc' = NextCell("describe")
             /\ err' = err
          \/ Raise("describe_training_job", r) /\ UNCHANGED artifact
    /\ UNCHANGED <<notebook, serviceLists, now, trainingJobs, submissions, sleepLog,
                   trainRuns, tuning, fitWaits, resultsEnd, results, nResultQueries,
                   model_data, endpoint, invocations>>
    /\ UNCHANGED <<jobVars, registryVars>>

\* model = SKLearnModel(model_data=artifact, ...); predictor = model.deploy(...)
DeployCell ==
    /\ pc = <<"training", "deploy">>
    /\ \E r \in CallOutcomes :
          \/ /\ r = "ok"
             /\ calls' = Logged("deploy", r)
             /\ model_data' = artifact
             /\ endpoint' = CreateEndpoint(endpoint)
             /\ pc' = NextCell("deploy")
             /\ err' = err
          \/ Raise("deploy", r) /\ UNCHANGED <<model_data, endpoint>>
    /\ UNCHANGED <<notebook, serviceLists, now, trainingJobs, submissions, sleepLog,
                   trainRuns, tuning, fitWaits, resultsEnd, results, nResultQueries, artifact,
                   invocations>>
    /\ UNCHANGED <<jobVars, registryVars>>

\* predictor.predict(...) and the two runtime.invoke_endpoint(...) calls: an
\* endpoint that is not in service answers with an error.
InvokeCell(c) ==
    /\ pc = <<"training", c>>
    /\ invocations' = Append(invocations, [kind |-> c, endpoint |-> endpoint])
    /\ \E r \in CallOutcomes :
          \/ /\ r = "ok"
             /\ endpoint = "InService"
             /\ calls' = Logged(c, r)
             /\ pc' = NextCell(c)
             /\ err' = err
          \/ /\ r = "ok"
             /\ endpoint # "InService"
             /\ calls' = Logged(c, "ValidationException")
             /\ pc' = AfterFailure(pc, "ValidationException")
             /\ err' = "ValidationException"
          \/ Raise(c, r)
    /\ UNCHANGED <<notebook, serviceLists, now, trainingJobs, submissions, sleepLog,
                   trainRuns, tuning, fitWaits, resultsEnd, results, nResultQueries, artifact,
                   model_data, endpoint>>
    /\ UNCHANGED <<jobVars, registryVars>>

\* sm_boto3.delete_endpoint(EndpointName=predictor.endpoint)
DeleteCell ==
    /\ pc = <<"training", "delete">>
    /\ \E r \in CallOutcomes :
          \/ /\ r = "ok"
             /\ calls' = Logged("delete_endpoint", r)
             /\ endpoint' = DeleteEndpoint(endpoint)
             /\ pc' = NextCell("delete")
             /\ err' = err
          \/ Raise("delete_endpoint", r) /\ UNCHANGED endpoint
    /\ UNCHANGED <<notebook, serviceLists, now, trainingJobs, submissions, sleepLog,
                   trainRuns, tuning, fitWaits, resultsEnd, results, nResultQueries, artifact,
                   model_data, invocations>>
    /\ UNCHANGED <<jobVars, registryVars>>

InvokeCells == {"predict", "invoke_csv", "invoke_npy"}

\* ------------------------------------------------------------- the platform

\* What no step of the platform touches.
platformFixed == <<serviceLists, now, trainingJobs, groups, fitWaits>>

\* The service moves a job to a status in which it is still working on it.
RemoteStart ==
    /\ \E n \in DOMAIN jobs :
          \E s \in NextStatuses(jobs[n].Status) \ TerminalStatuses :
             \E r \in Outcomes(jobs[n], s, serviceLists) : jobs' = [jobs EXCEPT ![n] = r]
    /\ UNCHANGED <<platformFixed, trainRuns, tuning, endpoint>>
    /\ UNCHANGED clientVars

\* The service ends a running job: completed, stopped or failed.
RemoteFinish ==
    /\ \E n \in DOMAIN jobs :
          \E s \in NextStatuses(jobs[n].Status) \cap TerminalStatuses :
             \E r \in Outcomes(jobs[n], s, serviceLists) : jobs' = [jobs EXCEPT ![n] = r]
    /\ UNCHANGED <<platformFixed, trainRuns, tuning, endpoint>>
    /\ UNCHANGED clientVars

\* A training job ends: its script ran to the end, or it failed or was stopped.
RemoteTrain ==
    /\ \E p \in TrainingPaths :
          /\ trainRuns[p].status = "InProgress"
          /\ \E run \in RunOutcomes(trainRuns[p]) : trainRuns' = [trainRuns EXCEPT ![p] = run]
    /\ UNCHANGED <<platformFixed, jobs, tuning, endpoint>>
    /\ UNCHANGED clientVars

\* The tuning job launches its first training job.
TuningLaunch ==
    /\ tuning.status = "InProgress"
    /\ ~tuning.rows
    /\ tuning' = [tuning EXCEPT !.rows = TRUE]
    /\ UNCHANGED <<platformFixed, jobs, trainRuns, endpoint>>
    /\ UNCHANGED clientVars

\* The tuning job ends.
TuningFinish ==
    /\ tuning.status = "InProgress"
    /\ \E s \in TuningOutcomes(tuning) : tuning' = [tuning EXCEPT !.status = s]
    /\ UNCHANGED <<platformFixed, jobs, trainRuns, endpoint>>
    /\ UNCHANGED clientVars

\* Half a second passes.
Tick ==
    /\ now < MaxTime
    /\ now' = now + 1
    /\ UNCHANGED <<serviceLists, jobs, trainingJobs, groups, fitWaits, trainRuns, tuning,
                   endpoint>>
    /\ UNCHANGED clientVars

ClientStep ==
    \/ UploadModel
    \/ UploadPayload
    \/ CreateGroupCell
    \/ CreatePackageCell
    \/ \E j \in JobKinds : NameCell(j)
    \/ \E j \in JobKinds : CreateCell(j)
    \/ \E j \in JobKinds : PollInit(j)
    \/ \E j \in JobKinds : PollIteration(j)
    \/ \E j \in JobKinds : PollExit(j)
    \/ \E j \in JobKinds : Report(j)
    \/ \E j \in JobKinds : Aggregate(j)
    \/ Telemetry
    \/ UploadDataCell
    \/ EstimatorFit
    \/ UploadSource
    \/ TrainingCreate
    \/ TunerFit
    \/ TunerFitReturns
    \/ TunerResultsInit
    \/ TunerResultsIteration
    \/ TunerResultsExit
    \/ WaitCell
    \/ DescribeCell
    \/ DeployCell
    \/ \E c \in InvokeCells : InvokeCell(c)
    \/ DeleteCell

Next ==
    \/ UploadModel
    \/ UploadPayload
    \/ CreateGroupCell
    \/ CreatePackageCell
    \/ \E j \in JobKinds : NameCell(j)
    \/ \E j \in JobKinds : CreateCell(j)
    \/ \E j \in JobKinds : PollInit(j)
    \/ \E j \in JobKinds : PollIteration(j)
    \/ \E j \in JobKinds : PollExit(j)
    \/ \E j \in JobKinds : Report(j)
    \/ \E j \in JobKinds : Aggregate(j)
    \/ Telemetry
    \/ UploadDataCell
    \/ EstimatorFit
    \/ UploadSource
    \/ TrainingCreate
    \/ TunerFit
    \/ TunerFitReturns
    \/ TunerResultsInit
    \/ TunerResultsIteration
    \/ TunerResultsExit
    \/ WaitCell
    \/ DescribeCell
    \/ DeployCell
    \/ \E c \in InvokeCells : InvokeCell(c)
    \/ DeleteCell
    \/ RemoteStart
    \/ RemoteFinish
    \/ RemoteTrain
    \/ TuningLaunch
    \/ TuningFinish
    \/ Tick

Spec == Init /\ [][Next]_vars

\* The interpreter keeps running the notebook: a cell that can run does run,
\* and time.sleep returns.  Nothing is assumed of the service's progress.
\* Whether a poll loop is left does not depend on what a recommendation list
\* holds, so the service here returns one of two lists.
FairInit == InitWith({<<>>, <<RecA, RecB>>})

FairSpec == FairInit /\ [][Next]_vars /\ WF_vars(ClientStep)

\* ------------------------------------------------------------------ claims

\* The poll loop of job j has been left.
PollLeft(j) == pollEnd[j] # "none"

\* df and err are as the aggregation cell of job j left them.
LastAggregated(j) == aggInput[j].ran /\ (j = "default" => ~aggInput["advanced"].ran)

\* The aggregation cell of job j raised.
AggregationRaised(j) ==
    /\ LastAggregated(j)
    /\ pc = Halted
    /\ err \in {"KeyError: InferenceRecommendations", "KeyError: VariantName"}

\* The recommendation list the aggregation cell of job j read.
AggRecs(j) == aggInput[j].job.InferenceRecommendations

\* The statuses a poll has read: no pass after a terminal one, and the loop is
\* left with a terminal status and not before.
C1_Statuses ==
    /\ nTerminal <= 1
    /\ \A j \in JobKinds :
          /\ pc = <<j, "poll">> =>
                /\ finished <=> nTerminal = 1
                /\ nQueries > 0 =>
                      (finished <=> inference_recommender_job.Status \in TerminalStatuses)
          /\ pc \in {<<j, "report">>, <<j, "agg">>} =>
                /\ nTerminal = 1
                /\ inference_recommender_job.Status \in TerminalStatuses
                /\ inference_recommender_job.Status = pollEnd[j]
          /\ PollLeft(j) => pollEnd[j] \in TerminalStatuses

\* A pass of the loop reads the record the service holds at that moment.
C1_FreshQuery ==
    \A j \in JobKinds :
       (pc = <<j, "poll">> /\ pc' = pc /\ (nQueries' # nQueries \/ finished' # finished))
          => /\ inference_recommender_job' = jobs[JobName(j)]
             /\ nQueries' = Sat(nQueries)

\* C1: a poll loop reads the job's current record on every pass, is left only
\* once a status of COMPLETED, STOPPED or FAILED was read, stops at the first
\* such status, and reads nothing after it.
C1_PollStopsAtFirstTerminal == []C1_Statuses /\ [][C1_FreshQuery]_vars

\* C1 witness: the advanced poll was left after two passes that saw the job
\* still running.
C1_Witness ==
    /\ pc = <<"advanced", "report">>
    /\ nSleeps = 2
    /\ nQueries = 3
    /\ pollEnd["advanced"] = "STOPPED"

\* C2: a job record with an empty recommendation list aggregates to an empty
\* table, and the aggregation cell raises nothing, its drop of the
\* VariantName column included.
C2_EmptyListAggregates ==
    \A j \in JobKinds :
       (LastAggregated(j) /\ aggInput[j].job.HasRecommendations /\ AggRecs(j) = <<>>)
          => ~AggregationRaised(j) /\ df = EmptyTable

\* C3: the aggregation cell never runs for a job whose poll ended with FAILED.
C3_NoAggregationAfterFailed ==
    \A j \in JobKinds : pollEnd[j] = "FAILED" => ~aggInput[j].ran

\* The three sub-records of x have pairwise disjoint keys.
DisjointKeys(x) ==
    /\ DOMAIN x.EndpointConfiguration \cap DOMAIN x.ModelConfiguration = {}
    /\ DOMAIN x.EndpointConfiguration \cap DOMAIN x.Metrics = {}
    /\ DOMAIN x.ModelConfiguration \cap DOMAIN x.Metrics = {}

\* The aggregation cell of job j ran on a non-empty list and df is its table.
AggregatedList(j) ==
    /\ LastAggregated(j)
    /\ aggInput[j].job.HasRecommendations
    /\ AggRecs(j) # <<>>

\* C4: for a non-empty list of records with pairwise disjoint sub-record keys
\* the table has one row per record, its columns are the keys of the three
\* sub-records without VariantName, and a cell holds the value its record has
\* under the column's key.
C4_FlattenedTable ==
    \A j \in JobKinds :
       (AggregatedList(j) /\ \A i \in 1..Len(AggRecs(j)) : DisjointKeys(AggRecs(j)[i]))
          => /\ ~AggregationRaised(j)
             /\ Len(df.rows) = Len(AggRecs(j))
             /\ df.columns = (UNION {KeysOf(AggRecs(j)[i]) : i \in 1..Len(AggRecs(j))})
                                \ {"VariantName"}
             /\ \A i \in 1..Len(AggRecs(j)) :
                   /\ DOMAIN df.rows[i] = df.columns
                   /\ \A k \in 1..3 : \A c \in DOMAIN SubRecords(AggRecs(j)[i])[k] :
                         c # "VariantName" => df.rows[i][c] = SubRecords(AggRecs(j)[i])[k][c]

\* C4 witness: the default job's two records, with different key sets, were
\* aggregated.
C4_Witness ==
    /\ pc = <<"advanced", "name">>
    /\ AggRecs("default") = <<RecA, RecB>>
    /\ Len(df.rows) = 2

\* The values record x has under key c.
ValuesUnder(x, c) == {SubRecords(x)[k][c] : k \in {k \in 1..3 : c \in DOMAIN SubRecords(x)[k]}}

\* C5: row i of the table is built from the i-th record of the list, in the
\* order the service returned them; the table has as many rows as the list.
C5_RowOrderKept ==
    \A j \in JobKinds :
       (AggregatedList(j) /\ ~AggregationRaised(j))
          => /\ Len(df.rows) = Len(AggRecs(j))
             /\ \A i \in 1..Len(AggRecs(j)) : \A c \in df.columns :
                   IF c \in KeysOf(AggRecs(j)[i])
                   THEN df.rows[i][c] \in ValuesUnder(AggRecs(j)[i], c)
                   ELSE df.rows[i][c] = "NaN"

\* C5 witness: the advanced job returned two different records, and its
\* table was built.
C5_Witness ==
    /\ pc = <<"end", "telemetry">>
    /\ AggRecs("advanced") = <<RecB, RecShared>>
    /\ Len(df.rows) = 2

\* The report cell of job j has run.
Reported(j) == printed[j].kind # "none"

\* The create calls this run made for job j.
SubmissionsOf(j) == {i \in DOMAIN submissions : submissions[i].name[1] = JobNameFor(j, 0)[1]}

\* What the report cell printed, against the status the poll ended with.
C6_Report ==
    \A j \in JobKinds :
       /\ (PollLeft(j) /\ pc # <<j, "report">>) => Reported(j)
       /\ (Reported(j) /\ pollEnd[j] = "FAILED") =>
             /\ printed[j].kind = "failed"
             /\ printed[j].reasonRead
             /\ printed[j].reason = jobs[JobName(j)].FailureReason
             /\ printed[j].reason # ""
       /\ (Reported(j) /\ pollEnd[j] # "FAILED") =>
             /\ printed[j].kind = "completed"
             /\ ~printed[j].reasonRead
       /\ Cardinality(SubmissionsOf(j)) <= 1

\* After a failed poll the run never goes back to name, submit or poll the job.
C6_NoRecovery ==
    \A j \in JobKinds :
       pollEnd[j] = "FAILED" =>
          pc' \notin {<<j, "name">>, <<j, "create">>, <<j, "poll_init">>, <<j, "poll">>}

\* C6: a poll that ended with FAILED is reported by printing the record's
\* failure reason, which is not empty; the reason is read for no other
\* status; and nothing is resubmitted or polled again afterwards.
C6_FailureReported == []C6_Report /\ [][C6_NoRecovery]_vars

\* C6 witness: the default job failed and its reason was printed.
C6_Witness ==
    /\ pc = <<"default", "agg">>
    /\ pollEnd["default"] = "FAILED"
    /\ printed["default"].reason = "ValidationError"

\* C7: a create call under a name that is already registered fails, adds no
\* job, and leaves the registered job's record as it was.
C7_DuplicateNameRejected ==
    [][\A j \in JobKinds :
          (pc = <<j, "create">> /\ pc' # pc /\ JobName(j) \in DOMAIN jobs)
             => /\ pc' = Halted
                /\ err' \in {"ResourceInUse"} \cup CallErrors
                /\ DOMAIN jobs' = DOMAIN jobs
                /\ jobs' = jobs]_vars

\* C7 witness: the run stopped at a create call that was refused, and the
\* earlier job is still registered.
C7_Witness ==
    /\ notebook = "recommender"
    /\ pc = Halted
    /\ err = "ResourceInUse"
    /\ Len(submissions) = 2
    /\ jobs[advanced_job_name].Status = "STOPPED"

\* C8: every job name submitted differs from every name submitted before it,
\* those of earlier runs included.
C8_SubmittedNamesFresh == \A i \in DOMAIN submissions : submissions[i].fresh

StatusRank(s) == CASE s = "PENDING" -> 0 [] s = "IN_PROGRESS" -> 1 [] OTHER -> 2

\* One step, seen from the registry.
C9_Step ==
    /\ \A n \in DOMAIN jobs :
          /\ n \in DOMAIN jobs'
          /\ jobs'[n].Status # jobs[n].Status =>
                StatusRank(jobs'[n].Status) = StatusRank(jobs[n].Status) + 1
          /\ jobs[n].Status \in TerminalStatuses => jobs'[n] = jobs[n]
          /\ clientVars' # clientVars => jobs'[n] = jobs[n]
    /\ \A n \in DOMAIN jobs' \ DOMAIN jobs : jobs'[n].Status = "PENDING"

\* C9: a job starts as submitted, its status moves one stage forward at a
\* time, a terminal record never changes, and no step of the client changes
\* a status.
C9_StatusMovesForward == [][C9_Step]_vars

\* C9 witness: the advanced job went through every stage while the client
\* polled it.
C9_Witness ==
    /\ pc = <<"advanced", "poll">>
    /\ nSleeps = 2
    /\ inference_recommender_job.Status = "IN_PROGRESS"
    /\ jobs[advanced_job_name].Status = "COMPLETED"

\* A loop that has read no terminal status can make another pass, however
\* many it has made, and a loop that was left has a terminal job.
C10_Unbounded ==
    \A j \in JobKinds :
       /\ (pc = <<j, "poll">> /\ ~finished) => ENABLED PollIteration(j)
       /\ (pc = <<j, "poll">> /\ ~finished) => nTerminal = 0
       /\ PollLeft(j) => jobs[JobName(j)].Status \in TerminalStatuses

\* Once the job is terminal the loop is left, unless a status query fails
\* and ends the run.
C10_Exits ==
    \A j \in JobKinds :
       (pc = <<j, "poll">> /\ jobs[JobName(j)].Status \in TerminalStatuses)
          ~> (PollLeft(j) \/ pc = Halted)

\* C10: the poll loop has no bound of its own.  It can always make another
\* pass while it has read no terminal status, it is left only when the job
\* is terminal, and once the job is terminal it is left (or a failed query
\* has ended the run).
C10_PollTerminatesIffTerminal == []C10_Unbounded /\ C10_Exits

\* C10 witness: a poll was left after more passes than the counters count.
C10_Witness ==
    /\ pc = <<"default", "report">>
    /\ nSleeps = MaxCount
    /\ nQueries = MaxCount

\* The positions in the log of remote calls at which op was called.
CallsOf(op) == {i \in DOMAIN calls : calls[i].op = op}

\* The log of remote calls: no call twice, a failed call is the last one, and
\* the run has stopped exactly when a cell raised.
C11_Log ==
    /\ \A i, k \in DOMAIN calls : calls[i].op = calls[k].op => i = k
    /\ \A i \in DOMAIN calls : ~calls[i].ok => (i = Len(calls) /\ pc = Halted)
    /\ err # "none" <=> pc = Halted

\* A run that has stopped takes no further step.
C11_Stopped == pc = Halted => clientVars' = clientVars

\* C11: outside the poll loops every remote call is made at most once in a
\* run; a call that fails, with an error of either kind, stops the run at
\* that call: it is not made again and no later cell runs.
C11_FailedCallStopsRun == []C11_Log /\ [][C11_Stopped]_vars

\* C11 witness: the default job's create call was throttled, as the fifth
\* call of the run, and the run has stopped.
C11_Witness ==
    /\ pc = Halted
    /\ err = "ThrottlingException"
    /\ Len(calls) = 5
    /\ calls[5] = [op |-> "create_job_default", ok |-> FALSE]

\* The attributes of the parsed arguments that are model hyperparameters.
ModelHyperparameters == {<<"n", "_", "estimators">>, <<"min", "_", "samples", "_", "leaf">>}

\* The value a finished training job trained with, by attribute.
TrainedValue(run, d) ==
    IF d = <<"n", "_", "estimators">> THEN run.trained.n_estimators
    ELSE run.trained.min_samples_leaf

\* C12: on both submission paths every submitted model hyperparameter is
\* recognised by the script's parser under the submitted key, and the script
\* trains with the submitted value.
C12_SubmittedHyperparametersUsed ==
    \A p \in TrainingPaths :
       trainRuns[p].status = "Completed" =>
          \A k \in DOMAIN trainRuns[p].hp :
             DestOf(<<"--">> \o k) \in ModelHyperparameters =>
                /\ Recognised(<<"--">> \o k)
                /\ TrainedValue(trainRuns[p], DestOf(<<"--">> \o k))
                      = IntOfStr(trainRuns[p].hp[k])

\* C13: the tuner results loop blocks until the tuning job has reached a
\* terminal state: when the loop is left, the tuning job has ended.
C13_TunerLoopWaitsForTerminal == resultsEnd # "none" => resultsEnd \in TrainingTerminal

\* C14: in a run of the training notebook without a failed call the endpoint
\* is created once, every invocation meets the endpoint in service, the
\* delete call is made once and as the last step, after the three
\* invocations, and nothing is invoked after it.
C14_EndpointLifecycle ==
    (notebook = "training" /\ err = "none") =>
       /\ Cardinality(CallsOf("deploy")) <= 1
       /\ Cardinality(CallsOf("delete_endpoint")) <= 1
       /\ \A i \in DOMAIN invocations : invocations[i].endpoint = "InService"
       /\ invocations # <<>> => CallsOf("deploy") # {}
       /\ endpoint = "Deleted" =>
             /\ pc = Done
             /\ calls[Len(calls)].op = "delete_endpoint"
       /\ pc = Done =>
             /\ endpoint = "Deleted"
             /\ Cardinality(CallsOf("deploy")) = 1
             /\ Cardinality(CallsOf("delete_endpoint")) = 1
             /\ [i \in DOMAIN invocations |-> invocations[i].kind]
                   = <<"predict", "invoke_csv", "invoke_npy">>

\* C14 witness: the training notebook ran to its end.
C14_Witness ==
    /\ notebook = "training"
    /\ pc = Done
    /\ endpoint = "Deleted"
    /\ Len(invocations) = 3

\* The remote calls of the recommender notebook outside its loops, in the
\* order of its cells.
PipelineOps ==
    <<"upload_model", "upload_payload", "create_model_package_group", "create_model_package",
      "create_job_default", "create_job_advanced", "get_endpoint_metrics">>

\* The package the run registered, as the registry holds it.
RegisteredPackage == groups[model_package_arn[1]][model_package_arn[2]]

\* C15: in the recommender notebook a step runs only after the steps before
\* it have succeeded: the package is registered after both uploads and the
\* group, and holds the two upload locations; a job is submitted after the
\* package is registered and names it; a job's aggregation runs after that
\* job's poll was left, on the record that poll read.
C15_PipelineOrder ==
    notebook = "recommender" =>
       /\ Len(calls) <= Len(PipelineOps)
       /\ \A i \in DOMAIN calls :
             /\ calls[i].op = PipelineOps[i]
             /\ i < Len(calls) => calls[i].ok
       /\ model_package_arn # NoArn =>
             /\ model_url = UploadData("tf-model.tar.gz", "model")
             /\ sample_payload_url = UploadData("payload.tar.gz", "payload")
             /\ model_package_group_name \in DOMAIN groups
             /\ RegisteredPackage.ModelPackageGroupName = model_package_group_name
             /\ RegisteredPackage.SamplePayloadUrl = sample_payload_url
             /\ RegisteredPackage.ModelDataUrl = model_url
       /\ \A i \in DOMAIN submissions :
             /\ model_package_arn # NoArn
             /\ submissions[i].input.ModelPackageVersionArn = model_package_arn
       /\ \A j \in JobKinds :
             aggInput[j].ran =>
                /\ PollLeft(j)
                /\ aggInput[j].job.JobName = JobName(j)
                /\ aggInput[j].job.Status = pollEnd[j]

\* C15 witness: the advanced job was aggregated, after everything before it.
C15_Witness ==
    /\ pc = <<"end", "telemetry">>
    /\ Len(calls) = 6
    /\ aggInput["advanced"].ran
    /\ aggInput["advanced"].job.Status = "COMPLETED"

\* C16: a create call for a model package group whose name is already
\* registered fails, and leaves the registered group and its packages as
\* they were.
C16_DuplicateGroupRejected ==
    [][(pc = <<"setup", "group">> /\ pc' # pc /\ ModelPackageGroupName(now) \in DOMAIN groups)
          => /\ pc' = Halted
             /\ err' \in {"ResourceInUse"} \cup CallErrors
             /\ groups' = groups]_vars

\* C16 witness: the run stopped at the group's create call, which was
\* refused, and the earlier group still has its package.
C16_Witness ==
    /\ pc = Halted
    /\ err = "ResourceInUse"
    /\ Len(calls) = 3
    /\ groups = EarlierGroup
    /\ Len(groups[model_package_group_name]) = 1

\* An invocation of this run failed.
InvocationFailed == \E i \in DOMAIN calls : calls[i].op \in InvokeCells /\ ~calls[i].ok

\* C17: once an invocation has failed, the run has stopped, the delete call
\* is never made, and the endpoint stays in service.
C17_EndpointLeftLive ==
    InvocationFailed =>
       /\ pc = Halted
       /\ CallsOf("delete_endpoint") = {}
       /\ endpoint = "InService"

\* C17 witness: the csv invocation failed on an endpoint in service.
C17_Witness ==
    /\ pc = Halted
    /\ calls[Len(calls)] = [op |-> "invoke_csv", ok |-> FALSE]
    /\ err = "ValidationException"
    /\ endpoint = "InService"
    /\ now = MaxTime

\* What the run knows of its package, and what its job requests name.
C18_Package ==
    notebook = "recommender" =>
       /\ Cardinality(CallsOf("create_model_package")) <= 1
       /\ model_package_arn # NoArn <=>
             (CallsOf("create_model_package") # {} /\ calls[4].ok)
       /\ model_package_arn # NoArn =>
             /\ model_package_arn[1] = model_package_group_name
             /\ model_package_arn[2] = Len(groups[model_package_group_name])
       /\ \A i \in DOMAIN submissions :
             submissions[i].input = [ModelPackageVersionArn |-> model_package_arn]

\* The registry only grows, and the run keeps the identifier it was given.
C18_Step ==
    /\ model_package_arn # NoArn => model_package_arn' = model_package_arn
    /\ \A g \in DOMAIN groups : g \in DOMAIN groups' /\ IsPrefix(groups[g], groups'[g])

\* C18: a run registers its model package once and never changes or removes
\* it, and the default and the advanced job request both name the
\* identifier that registration returned.
C18_OnePackage == []C18_Package /\ [][C18_Step]_vars

\* C18 witness: both jobs were submitted, beside the package of an earlier
\* run's group.
C18_Witness ==
    /\ pc = <<"advanced", "poll_init">>
    /\ Len(submissions) = 2
    /\ submissions[1].input = submissions[2].input
    /\ Cardinality(DOMAIN groups) = 2

\* The counts of a poll: one query more than sleeps once a terminal status
\* was read, as many before; every sleep of a poll takes 300.
C19_Counts ==
    /\ \A j \in JobKinds :
          /\ pc = <<j, "poll">> =>
                nQueries = (IF finished THEN Sat(nSleeps) ELSE nSleeps)
          /\ pc \in {<<j, "report">>, <<j, "agg">>} =>
                /\ nQueries >= 1
                /\ nQueries = Sat(nSleeps)
    /\ \A e \in sleepLog : e[1] \in JobKinds => e[2] = 300

\* A pass of the loop sleeps after a status that is not terminal, for the
\* interval, and does not sleep after a terminal one.
C19_Pass ==
    \A j \in JobKinds :
       (pc = <<j, "poll">> /\ pc' = pc /\ clientVars' # clientVars) =>
          IF inference_recommender_job'.Status \in TerminalStatuses
          THEN nSleeps' = nSleeps /\ now' = now /\ sleepLog' = sleepLog
          ELSE /\ nSleeps' = Sat(nSleeps)
               /\ now' = Min(now + 600, MaxTime)
               /\ <<j, 300>> \in sleepLog'

\* C19: a poll loop queries at least once, sleeps 300 once after every status
\* that is not terminal and never after a terminal one, and is left with
\* one query more than sleeps.
C19_OneSleepPerPendingStatus == []C19_Counts /\ [][C19_Pass]_vars

\* C19 witness: the default poll was left after two queries and one sleep.
C19_Witness ==
    /\ pc = <<"default", "report">>
    /\ nQueries = 2
    /\ nSleeps = 1
    /\ sleepLog = {<<"default", 300>>}

\* C20: the telemetry fetch is made for a job name under which a poll of
\* this run has read a terminal status.
C20_TelemetryAfterTerminalPoll ==
    telemetryJob # NoName =>
       \E j \in JobKinds :
          /\ JobName(j) = telemetryJob
          /\ PollLeft(j)
          /\ pollEnd[j] \in TerminalStatuses
          /\ jobs[telemetryJob].Status = pollEnd[j]

\* C20 witness: telemetry was fetched for the default job, which had
\* completed.
C20_Witness ==
    /\ pc = Done
    /\ notebook = "recommender"
    /\ telemetryJob = default_job_name
    /\ pollEnd["default"] = "COMPLETED"

\* The names of the recommendation jobs that this run submitted and the
\* service accepted.
SubmittedByRun ==
    {submissions[i].name : i \in {k \in DOMAIN submissions : submissions[k].fresh}}
        \cap DOMAIN jobs

\* C21: of the recommendation jobs that a run of the recommender notebook
\* submitted, at most one is in a status that is not terminal, and the create
\* call of the advanced job is made only after the poll of the default job
\* ended on a terminal status.
C21_OneJobAtATime ==
    notebook = "recommender" =>
        /\ Cardinality({n \in SubmittedByRun : jobs[n].Status \notin TerminalStatuses}) <= 1
        /\ \A i \in DOMAIN submissions :
              submissions[i].name = advanced_job_name =>
                  /\ pollEnd["default"] \in TerminalStatuses
                  /\ default_job_name \in SubmittedByRun
                  /\ jobs[default_job_name].Status = pollEnd["default"]

\* The advanced job is running, and the default job of the same run has ended.
C21_Witness ==
    /\ notebook = "recommender"
    /\ {default_job_name, advanced_job_name} \subseteq SubmittedByRun
    /\ jobs[advanced_job_name].Status = "IN_PROGRESS"
    /\ jobs[default_job_name].Status = "COMPLETED"

\* C22: the poll of the advanced job starts with the flag reset, queries at
\* least once, and is left with the record of the advanced job in
\* inference_recommender_job; the second aggregation cell reads that record
\* and not the default job's.
C22_AdvancedPollStartsAfresh ==
    /\ pc = <<"advanced", "poll">> /\ nQueries = 0 => ~finished
    /\ pollEnd["advanced"] # "none" =>
          /\ nQueries >= 1
          /\ advanced_job_name # default_job_name
          /\ inference_recommender_job.JobName = advanced_job_name
          /\ inference_recommender_job.Status = pollEnd["advanced"]
    /\ aggInput["advanced"].ran =>
          /\ aggInput["advanced"].job.JobName = advanced_job_name
          /\ aggInput["advanced"].job = inference_recommender_job

\* Both aggregation cells ran, on jobs that came with different
\* recommendations, and the second one read the advanced job's.
C22_Witness ==
    /\ aggInput["default"].ran
    /\ aggInput["advanced"].ran
    /\ aggInput["default"].job.JobName = default_job_name
    /\ aggInput["advanced"].job.InferenceRecommendations = <<RecB>>
    /\ aggInput["default"].job.InferenceRecommendations = <<RecA>>

\* C23: the report after a poll tells FAILED from every other status and
\* nothing else: it prints the failure exactly when the poll ended with
\* FAILED, and prints "completed" for COMPLETED and for STOPPED alike.
C23_ReportTellsFailedOnly ==
    \A j \in JobKinds :
       Reported(j) =>
          /\ pollEnd[j] \in TerminalStatuses
          /\ printed[j].kind \in {"failed", "completed"}
          /\ printed[j].kind = "failed" <=> pollEnd[j] = "FAILED"
          /\ pollEnd[j] \in {"COMPLETED", "STOPPED"} => printed[j].kind = "completed"

\* The advanced job was stopped and reported as completed, after a default
\* job that completed.
C23_Witness ==
    /\ pollEnd["default"] = "COMPLETED"
    /\ pollEnd["advanced"] = "STOPPED"
    /\ printed["default"].kind = "completed"
    /\ printed["advanced"].kind = "completed"

\* The line of the log that holds the 50th percentile.
MedianLine == CHOOSE i \in DOMAIN Percentiles : Percentiles[i] = 50

\* C24: of the three lines a completed training run printed, the metric
\* pattern is found in the 50th-percentile line and in no other, under the
\* definitions the job was submitted with and under the tuner's; and the
\* tuner's objective metric is named as the metric is named in the
\* estimator, in the raw request and in the tuner.
C24_MedianLineOnlyMatches ==
    /\ \A p \in TrainingPaths :
          trainRuns[p].status = "Completed" =>
             /\ Len(trainRuns[p].log) = Len(Percentiles)
             /\ \A d \in trainRuns[p].defs \cup TunerMetricDefinitions :
                   \A i \in DOMAIN trainRuns[p].log :
                      Search(d.Regex, trainRuns[p].log[i]) <=> i = MedianLine
             /\ trainRuns[p].metrics = {[Name |-> objective_metric_name, line |-> MedianLine]}
    /\ \A p \in TrainingPaths :
          trainRuns[p].status # "none" =>
             /\ trainRuns[p].defs = MetricDefinitionsOf(p)
             /\ \A d \in trainRuns[p].defs : d.Name = objective_metric_name
    /\ \A d \in TunerMetricDefinitions : d.Name = objective_metric_name

\* Both training jobs completed, one with a percentile that printed in
\* exponent notation and a 90th percentile that printed as 50.0.
C24_Witness ==
    /\ trainRuns["sdk"].status = "Completed"
    /\ trainRuns["boto3"].status = "Completed"
    /\ trainRuns["boto3"].log[1] = PrintedLine(10, <<"3", "e", "-", "0", "5">>)
    /\ trainRuns["boto3"].log[3] = PrintedLine(90, <<"5", "0", ".", "0">>)
    /\ trainRuns["sdk"].metrics # {}

\* The describe_training_job call of the run came after a wait that returned.
DescribedAfterWait ==
    \A k \in CallsOf("describe_training_job") :
       \E i \in CallsOf("wait") : i < k /\ calls[i].ok

\* C25: the artifact location is read, and the model built from it is
\* deployed, only after the training job that sklearn_estimator.fit submitted
\* has ended and the wait for it has returned; the location read and
\* deployed is that job's, not the raw training job's.
C25_ArtifactReadAfterWait ==
    /\ DescribedAfterWait
    /\ artifact # NoUrl =>
          /\ CallsOf("describe_training_job") # {}
          /\ trainRuns["sdk"].status \in TrainingTerminal
          /\ artifact = ArtifactOf("sdk")
          /\ artifact # ArtifactOf("boto3")
    /\ model_data # NoUrl => model_data = artifact
    /\ endpoint # "none" =>
          /\ model_data = ArtifactOf("sdk")
          /\ trainRuns["sdk"].status \in TrainingTerminal

\* The endpoint serves the estimator's job, which completed, while the raw
\* training job is still running.
C25_Witness ==
    /\ endpoint = "InService"
    /\ model_data = ArtifactOf("sdk")
    /\ trainRuns["sdk"].status = "Completed"
    /\ trainRuns["boto3"].status = "InProgress"

\* The number of value combinations a list of parameter ranges sweeps.
RECURSIVE ValueCombinations(_)
ValueCombinations(ranges) ==
    IF ranges = <<>>
    THEN 1
    ELSE Len(Head(ranges).Value) * ValueCombinations(Tail(ranges))

\* The number of endpoint configurations a request asks to test: per
\* candidate instance type, one for each combination of swept values.
RECURSIVE NumberOfTests(_)
NumberOfTests(configs) ==
    IF configs = <<>>
    THEN 0
    ELSE ValueCombinations(Head(configs).EnvironmentParameterRanges)
            + NumberOfTests(Tail(configs))

\* The requests this run made for the advanced job.
AdvancedRequests ==
    {i \in DOMAIN submissions : notebook = "recommender" /\ submissions[i].name = advanced_job_name}

\* C26: the advanced job request asks for no more endpoint configurations
\* than its maximum number of tests, and its maximum number of parallel
\* tests is at least 1 and at most the maximum number of tests.
C26_TestsWithinLimits ==
    \A i \in AdvancedRequests :
       /\ NumberOfTests(submissions[i].EndpointConfigurations)
             <= submissions[i].ResourceLimit.MaxNumberOfTests
       /\ 1 <= submissions[i].ResourceLimit.MaxParallelOfTests
       /\ submissions[i].ResourceLimit.MaxParallelOfTests
             <= submissions[i].ResourceLimit.MaxNumberOfTests

\* The advanced job was accepted with one instance type and three values:
\* three configurations to test.
C26_Witness ==
    \E i \in AdvancedRequests :
       /\ submissions[i].fresh
       /\ Len(submissions[i].EndpointConfigurations) = 1
       /\ NumberOfTests(submissions[i].EndpointConfigurations) = 3

\* The keys of record x that more than one of its sub-records holds.
SharedKeys(x) ==
    {c \in KeysOf(x) : Cardinality({k \in 1..3 : c \in DOMAIN SubRecords(x)[k]}) > 1}

\* The value of the last sub-record of x that holds key c, in the order
\* EndpointConfiguration, ModelConfiguration, Metrics.
LastValue(x, c) ==
    LET last == CHOOSE k \in 1..3 :
                   /\ c \in DOMAIN SubRecords(x)[k]
                   /\ \A m \in (k + 1)..3 : c \notin DOMAIN SubRecords(x)[m]
    IN  SubRecords(x)[last][c]

\* C27: a key that several sub-records of a record hold is one column of the
\* table, the record's row holds under it the value of the last sub-record
\* that has the key, and the table still has one row per record.
C27_LastSubRecordWins ==
    \A j \in JobKinds :
       (AggregatedList(j) /\ ~AggregationRaised(j))
          => /\ Len(df.rows) = Len(AggRecs(j))
             /\ \A i \in 1..Len(AggRecs(j)) :
                   \A c \in SharedKeys(AggRecs(j)[i]) \ {"VariantName"} :
                      /\ c \in df.columns
                      /\ c \in DOMAIN df.rows[i]
                      /\ df.rows[i][c] = LastValue(AggRecs(j)[i], c)

\* The default job returned the record whose three sub-records all hold
\* InstanceType, after another record, and the second row shows the value of
\* Metrics.
C27_Witness ==
    /\ AggregatedList("default")
    /\ ~AggregationRaised("default")
    /\ AggRecs("default") = <<RecA, RecShared>>
    /\ SharedKeys(RecShared) = {"InstanceType"}
    /\ Len(df.rows) = 2
    /\ df.rows[2]["InstanceType"] = "ml.c5d.large"

====
